---- MODULE Spec2Model ----
(***************************************************************************)
(* A model of the YAML preprocessor: the two entry points                  *)
(*   process_yaml_files  (yaml_preprocessor/transformer.py)                *)
(*   _process_yaml       (yaml_preprocessor/__init__.py)                   *)
(* acting on an input tree and an output tree.                             *)
(*                                                                         *)
(* Representation.  A file name is a sequence of one-character strings, a  *)
(* path is a sequence of names relative to the root of its tree.  The text *)
(* of a document is kept as its node tree (what the YAML composer makes of *)
(* it) whose scalars and mapping keys are raw character sequences, so that *)
(* the regular-expression substitution acts on characters and the implicit *)
(* resolver acts on the substituted characters.  A Python object is a      *)
(* value record; parsing turns nodes into values and dumping turns values  *)
(* back into nodes.                                                        *)
(***************************************************************************)
EXTENDS Integers, Sequences, FiniteSets, TLC

VARIABLES
    inExists,   \* input_dir exists
    inFS,       \* files of input_dir: path -> content
    outExists,  \* output_dir exists
    outFS,      \* files of output_dir: path -> content
    outDirs,    \* directories of output_dir (relative paths, root excluded)
    cwd,        \* the process working directory
    entry,      \* the entry point of the last run ("none" before any run)
    result,     \* how the last run ended: "ok" or the exception class raised
    preExists,  \* outExists as it was when the last run started
    preFS,      \* outFS as it was when the last run started
    parsed,     \* relative paths opened and parsed as documents in the last run
    bannered,   \* relative paths written with the warning banner in the last run
    missing,    \* placeholders of the last run that no vars mapping defined
    log,        \* warnings and exceptions logged by the last run
    runs        \* number of runs so far

vars == <<inExists, inFS, outExists, outFS, outDirs, cwd, entry, result,
          preExists, preFS, parsed, bannered, missing, log, runs>>

----------------------------------------------------------------------------
(* Bounds *)

\* number of consecutive runs explored
MaxRuns == 2

\* include nesting at which the interpreter's recursion limit is taken to be hit
MaxDepth == 3

----------------------------------------------------------------------------
(* Characters, names, paths *)

Digits == {"0", "1", "2", "3", "4", "5", "6", "7", "8", "9"}

Letters == {"a", "b", "c", "d", "e", "f", "g", "h", "i", "j", "k", "l", "m",
            "n", "o", "p", "q", "r", "s", "t", "u", "v", "w", "x", "y", "z",
            "A", "D", "E", "F", "H", "M", "N", "R", "T", "W"}

\* the class \w of the placeholder pattern
WordChars == Letters \cup Digits \cup {"_"}

StartsWith(s, p) == Len(s) >= Len(p) /\ SubSeq(s, 1, Len(p)) = p

EndsWith(s, p) == Len(s) >= Len(p) /\ SubSeq(s, Len(s) - Len(p) + 1, Len(s)) = p

Dot == <<".">>

YamlSuffix == <<".", "y", "a", "m", "l">>

YmlSuffix == <<".", "y", "m", "l">>

\* one element of a shell pattern: "*" or a character class
Star == [star |-> TRUE, cls |-> {}]

Cls(S) == [star |-> FALSE, cls |-> S]

\* fnmatch of a whole name against a pattern
RECURSIVE FnMatch(_, _)
FnMatch(pat, s) ==
    IF pat = <<>> THEN s = <<>>
    ELSE IF Head(pat).star
         THEN FnMatch(Tail(pat), s) \/ (s # <<>> /\ FnMatch(pat, Tail(s)))
         ELSE s # <<>> /\ Head(s) \in Head(pat).cls /\ FnMatch(Tail(pat), Tail(s))

\* "*.yaml" and "*.yml"
PatYaml == <<Star, Cls({"."}), Cls({"y"}), Cls({"a"}), Cls({"m"}), Cls({"l"})>>

PatYml == <<Star, Cls({"."}), Cls({"y"}), Cls({"m"}), Cls({"l"})>>

\* the last component of "**/*.y[a]ml"
PatGlob == <<Star, Cls({"."}), Cls({"y"}), Cls({"a"}), Cls({"m"}), Cls({"l"})>>

\* shutil.ignore_patterns("*.yaml", "*.yml") applied to one name
Ignored(name) == FnMatch(PatYaml, name) \/ FnMatch(PatYml, name)

\* str.startswith(".")
Hidden(name) == StartsWith(name, Dot)

\* str.endswith((".yaml", ".yml"))
IsDocName(name) == EndsWith(name, YamlSuffix) \/ EndsWith(name, YmlSuffix)

Last(s) == s[Len(s)]

Front(s) == SubSeq(s, 1, Len(s) - 1)

\* the directories a set of file paths implies (the root, <<>>, excluded)
DirsOf(paths) == UNION {{SubSeq(p, 1, i) : i \in 1..(Len(p) - 1)} : p \in paths}

----------------------------------------------------------------------------
(* Nodes (document text) and values (Python objects) *)

IncludeTag == "!include"

\* the tag yaml.Dumper gives an arbitrary Python object, here a ScalarNode
PyObjectTag == "!!python/object:yaml.nodes.ScalarNode"

Scal(tag, q, text) ==
    [kind |-> "scalar", tag |-> tag, q |-> q, text |-> text, keys |-> <<>>, items |-> <<>>]

SeqN(tag, items) ==
    [kind |-> "seq", tag |-> tag, q |-> FALSE, text |-> <<>>, keys |-> <<>>, items |-> items]

MapN(tag, keys, items) ==
    [kind |-> "map", tag |-> tag, q |-> FALSE, text |-> <<>>, keys |-> keys, items |-> items]

\* text the scanner or parser rejects
BadN == [kind |-> "bad", tag |-> "", q |-> FALSE, text |-> <<>>, keys |-> <<>>, items |-> <<>>]

\* a scalar holding the whole text of a file (banner and document)
TextN(banner, doc) ==
    [kind |-> "text", tag |-> banner, q |-> TRUE, text |-> <<>>, keys |-> <<>>, items |-> <<doc>>]

VStr(s) == [t |-> "str", tag |-> "", v |-> s, keys |-> <<>>, items |-> <<>>]

VInt(s) == [t |-> "int", tag |-> "", v |-> s, keys |-> <<>>, items |-> <<>>]

VBool(b) == [t |-> "bool", tag |-> "", v |-> IF b THEN <<"1">> ELSE <<"0">>, keys |-> <<>>, items |-> <<>>]

VNull == [t |-> "null", tag |-> "", v |-> <<>>, keys |-> <<>>, items |-> <<>>]

VList(items) == [t |-> "list", tag |-> "", v |-> <<>>, keys |-> <<>>, items |-> items]

VDict(keys, items) == [t |-> "dict", tag |-> "", v |-> <<>>, keys |-> keys, items |-> items]

\* _RawTag(tag, value)
VRaw(tag, value) == [t |-> "rawtag", tag |-> tag, v |-> <<>>, keys |-> <<>>, items |-> <<value>>]

\* a yaml.ScalarNode / SequenceNode object left in the data
VNode(node) == [t |-> "node", tag |-> node.tag, v |-> node.text, keys |-> <<>>, items |-> <<>>]

\* a str holding the whole text of a file
VText(banner, doc) == [t |-> "text", tag |-> banner, v |-> <<>>, keys |-> <<>>, items |-> <<doc>>]

\* the content of a file: an optional banner of comment lines, then the text
File(banner, doc) == [banner |-> banner, doc |-> doc]

NullTexts == {<<>>, <<"~">>, <<"n", "u", "l", "l">>, <<"N", "u", "l", "l">>}

TrueTexts == {<<"t", "r", "u", "e">>, <<"T", "r", "u", "e">>, <<"y", "e", "s">>, <<"o", "n">>}

FalseTexts == {<<"f", "a", "l", "s", "e">>, <<"F", "a", "l", "s", "e">>, <<"n", "o">>, <<"o", "f", "f">>}

IsIntText(s) ==
    /\ s # <<>>
    /\ \A i \in 1..Len(s) : s[i] \in Digits
    /\ (Len(s) > 1 => s[1] # "0")

\* the implicit resolver on a plain scalar
Resolve(s) ==
    IF s \in NullTexts THEN VNull
    ELSE IF s \in TrueTexts THEN VBool(TRUE)
    ELSE IF s \in FalseTexts THEN VBool(FALSE)
    ELSE IF IsIntText(s) THEN VInt(s)
    ELSE VStr(s)

\* str(value) of a scalar value
Str(val) ==
    CASE val.t = "str" -> val.v
      [] val.t = "int" -> val.v
      [] val.t = "bool" -> IF val.v = <<"1">> THEN <<"T", "r", "u", "e">>
                           ELSE <<"F", "a", "l", "s", "e">>
      [] val.t = "null" -> <<"N", "o", "n", "e">>
      [] OTHER -> <<"<", "r", "e", "p", "r", ">">>

\* bool(value) is False
Falsy(val) ==
    CASE val.t = "str" -> val.v = <<>>
      [] val.t = "int" -> val.v = <<"0">>
      [] val.t = "bool" -> val.v = <<"0">>
      [] val.t = "null" -> TRUE
      [] val.t \in {"list", "dict"} -> val.items = <<>>
      [] OTHER -> FALSE

HasKey(d, k) == \E i \in 1..Len(d.keys) : d.keys[i] = k

\* dict.get(k, default)
DictGet(d, k, default) ==
    IF HasKey(d, k)
    THEN d.items[CHOOSE i \in 1..Len(d.keys) :
                    d.keys[i] = k /\ \A j \in (i + 1)..Len(d.keys) : d.keys[j] # k]
    ELSE default

K_file == <<"f", "i", "l", "e">>

K_vars == <<"v", "a", "r", "s">>

----------------------------------------------------------------------------
(* The placeholder pattern  \$\{(\w+)\}  *)

\* length of the longest run of \w characters at the head of s
RECURSIVE WordRun(_)
WordRun(s) == IF s # <<>> /\ Head(s) \in WordChars THEN 1 + WordRun(Tail(s)) ELSE 0

\* length of the match of the pattern at the head of s, 0 when there is none
MatchLen(s) ==
    IF Len(s) >= 4 /\ s[1] = "$" /\ s[2] = "{"
    THEN LET n == WordRun(SubSeq(s, 3, Len(s)))
         IN IF n >= 1 /\ Len(s) >= n + 3 /\ s[n + 3] = "}" THEN n + 3 ELSE 0
    ELSE 0

\* group(1) of a match of length n at the head of s
Group1(s, n) == SubSeq(s, 3, n - 1)

\* the names of all placeholders of a text
RECURSIVE Placeholders(_)
Placeholders(s) ==
    IF s = <<>> THEN {}
    ELSE LET n == MatchLen(s)
         IN IF n = 0 THEN Placeholders(Tail(s))
            ELSE {Group1(s, n)} \cup Placeholders(SubSeq(s, n + 1, Len(s)))

RECURSIVE NodePlaceholders(_)
NodePlaceholders(node) ==
    Placeholders(node.text)
      \cup UNION {Placeholders(node.keys[i]) : i \in 1..Len(node.keys)}
      \cup UNION {NodePlaceholders(node.items[i]) : i \in 1..Len(node.items)}

RECURSIVE HasBad(_)
HasBad(node) ==
    node.kind = "bad" \/ \E i \in 1..Len(node.items) : HasBad(node.items[i])

----------------------------------------------------------------------------
(* Substitution *)

\* a replacement that ignores the vars of the include
ReplTIgnoresVars(name, vs) == <<>>

\* transformer.py: lambda match: str(vars_substitutions.get(match.group(1), ""))
ReplT(name, vs) == Str(DictGet(vs, name, VStr(<<>>)))

\* __init__.py replace_var, for a vars that is a dict
ReplI(name, vs) == IF HasKey(vs, name) THEN Str(DictGet(vs, name, VNull)) ELSE <<>>

Repl(name, vs, pol) == IF pol = "T" THEN ReplT(name, vs) ELSE ReplI(name, vs)

\* re.sub of the placeholder pattern over a text
RECURSIVE ReSub(_, _, _)
ReSub(s, vs, pol) ==
    IF s = <<>> THEN <<>>
    ELSE LET n == MatchLen(s)
         IN IF n = 0 THEN <<Head(s)>> \o ReSub(Tail(s), vs, pol)
            ELSE Repl(Group1(s, n), vs, pol) \o ReSub(SubSeq(s, n + 1, Len(s)), vs, pol)

\* re.sub over the whole text of a file
RECURSIVE SubNode(_, _, _)
SubNode(node, vs, pol) ==
    [node EXCEPT !.text = ReSub(node.text, vs, pol),
                 !.keys = [i \in 1..Len(node.keys) |-> ReSub(node.keys[i], vs, pol)],
                 !.items = [i \in 1..Len(node.items) |-> SubNode(node.items[i], vs, pol)]]

----------------------------------------------------------------------------
(* Reading files *)

\* a directory: inside the tree being read (at rel) or somewhere else
InTree(rel) == [known |-> TRUE, rel |-> rel]

Elsewhere == [known |-> FALSE, rel |-> <<>>]

\* the components of a relative path written with "/"
RECURSIVE SplitPath(_, _)
SplitPath(s, acc) ==
    IF s = <<>> THEN (IF acc = <<>> THEN <<>> ELSE <<acc>>)
    ELSE IF Head(s) = "/" THEN (IF acc = <<>> THEN <<>> ELSE <<acc>>) \o SplitPath(Tail(s), <<>>)
    ELSE SplitPath(Tail(s), Append(acc, Head(s)))

\* (dir / file).open("r").read()
ReadFile(dir, file, fs) ==
    LET p == dir.rel \o SplitPath(file, <<>>)
    IN IF dir.known /\ p \in DOMAIN fs THEN [err |-> "", content |-> fs[p]]
       ELSE IF dir.known /\ (p = <<>> \/ p \in DirsOf(DOMAIN fs))
            THEN [err |-> "IsADirectoryError", content |-> File("", BadN)]
       ELSE [err |-> "FileNotFoundError", content |-> File("", BadN)]

\* Path(loader.name).parent of a loader made from a string: Path("<unicode string>").parent
CwdDir(wd) == IF wd = "input" THEN InTree(<<>>) ELSE Elsewhere

----------------------------------------------------------------------------
(* transformer.py: construction with yaml.Loader *)

Ok(val) == [err |-> "", val |-> val, miss |-> {}]

Err(e) == [err |-> e, val |-> VNull, miss |-> {}]

\* _fallback_constructor, given the constructed children of a collection node
FallbackConstructor(node, children) ==
    IF node.kind = "scalar" THEN VRaw(node.tag, VStr(node.text))
    ELSE IF node.kind = "seq" THEN VRaw(node.tag, VList(children))
    ELSE VRaw(node.tag, VDict(node.keys, children))

\* what the names of a text are replaced by for want of a definition
Undefined(file, doc, vs) ==
    {[file |-> file, name |-> n] : n \in {m \in NodePlaceholders(doc) : ~HasKey(vs, m)}}

RECURSIVE ConT(_, _, _, _, _)
RECURSIVE ConTList(_, _, _, _, _)
RECURSIVE IncludeConstructorT(_, _, _, _, _)

\* the constructed children of a collection node, in document order
ConTList(nodes, dir, fs, wd, depth) ==
    IF nodes = <<>> THEN [err |-> "", vals |-> <<>>, miss |-> {}]
    ELSE LET h == ConT(Head(nodes), dir, fs, wd, depth)
         IN IF h.err # "" THEN [err |-> h.err, vals |-> <<>>, miss |-> h.miss]
            ELSE LET r == ConTList(Tail(nodes), dir, fs, wd, depth)
                 IN [err |-> r.err, vals |-> <<h.val>> \o r.vals, miss |-> h.miss \cup r.miss]

\* _include_constructor
IncludeConstructorT(node, dir, fs, wd, depth) ==
    IF node.kind # "map" THEN Ok(VNode(node))
    ELSE
      LET m == ConTList(node.items, dir, fs, wd, depth)
          value == VDict(node.keys, m.vals)
          file_path == DictGet(value, K_file, VNull)
          vars_substitutions == DictGet(value, K_vars, VDict(<<>>, <<>>))
          rd == ReadFile(dir, file_path.v, fs)
          doc == rd.content.doc
          sub == SubNode(doc, vars_substitutions, "T")
          inner == ConT(sub, CwdDir(wd), fs, wd, depth + 1)
      IN IF m.err # "" THEN [err |-> m.err, val |-> VNull, miss |-> m.miss]
         ELSE IF Falsy(file_path) THEN Err("MissingFileKeyError")
         ELSE IF file_path.t # "str" THEN Err("TypeError")
         ELSE IF rd.err # "" THEN Err(rd.err)
         ELSE IF NodePlaceholders(doc) # {} /\ vars_substitutions.t # "dict"
              THEN Err("AttributeError")
         ELSE IF HasBad(sub) THEN Err("YAMLError")
         ELSE IF depth >= MaxDepth THEN Err("RecursionError")
         ELSE [inner EXCEPT !.miss = inner.miss \cup m.miss
                                     \cup Undefined(file_path.v, doc, vars_substitutions)]

\* construct_object of yaml.Loader with the module's constructors registered
ConT(node, dir, fs, wd, depth) ==
    IF node.tag = IncludeTag THEN IncludeConstructorT(node, dir, fs, wd, depth)
    ELSE IF node.kind = "scalar" /\ node.tag = ""
         THEN Ok(IF node.q THEN VStr(node.text) ELSE Resolve(node.text))
    ELSE IF node.kind = "text" THEN Ok(VText(node.tag, node.items[1]))
    ELSE IF node.kind = "scalar" THEN Ok(FallbackConstructor(node, <<>>))
    ELSE LET c == ConTList(node.items, dir, fs, wd, depth)
         IN IF c.err # "" THEN [err |-> c.err, val |-> VNull, miss |-> c.miss]
            ELSE IF node.tag # "" THEN [Ok(FallbackConstructor(node, c.vals)) EXCEPT !.miss = c.miss]
            ELSE IF node.kind = "seq" THEN [Ok(VList(c.vals)) EXCEPT !.miss = c.miss]
            ELSE [Ok(VDict(node.keys, c.vals)) EXCEPT !.miss = c.miss]

\* yaml.Loader(infile) with loader.name set to the file's path; loader.get_data()
LoadT(p, fs, wd) ==
    IF HasBad(fs[p].doc) THEN Err("YAMLError")
    ELSE ConT(fs[p].doc, InTree(Front(p)), fs, wd, 0)

----------------------------------------------------------------------------
(* transformer.py: serialization with yaml.Dumper *)

K_tag == <<"t", "a", "g">>

K_value == <<"v", "a", "l", "u", "e">>

RECURSIVE DumpT(_)
RECURSIVE RawTagRepresenter(_)

\* a representer that forgets the tag of the wrapper
RawTagRepresenterDropsTag(data) == DumpT(data.items[1])

\* _raw_tag_representer
RawTagRepresenter(data) ==
    LET value == data.items[1]
    IN IF value.t = "str" THEN Scal(data.tag, FALSE, value.v)
       ELSE IF value.t = "list"
            THEN SeqN(data.tag, [i \in 1..Len(value.items) |-> DumpT(value.items[i])])
       ELSE IF value.t = "dict"
            THEN MapN(data.tag, value.keys,
                      [i \in 1..Len(value.items) |-> DumpT(value.items[i])])
       ELSE [DumpT(value) EXCEPT !.tag = data.tag]

\* yaml.dump(data, sort_keys=False): represent_data of yaml.Dumper
DumpT(val) ==
    CASE val.t = "str" -> Scal("", Resolve(val.v).t # "str", val.v)
      [] val.t = "int" -> Scal("", FALSE, val.v)
      [] val.t = "bool" -> Scal("", FALSE, IF val.v = <<"1">> THEN <<"t", "r", "u", "e">>
                                           ELSE <<"f", "a", "l", "s", "e">>)
      [] val.t = "null" -> Scal("", FALSE, <<"n", "u", "l", "l">>)
      [] val.t = "list" -> SeqN("", [i \in 1..Len(val.items) |-> DumpT(val.items[i])])
      [] val.t = "dict" -> MapN("", val.keys, [i \in 1..Len(val.items) |-> DumpT(val.items[i])])
      [] val.t = "rawtag" -> RawTagRepresenter(val)
      [] val.t = "node" -> MapN(PyObjectTag, <<K_tag, K_value>>,
                                <<Scal("", FALSE, <<"!", "i", "n", "c", "l", "u", "d", "e">>),
                                  Scal("", Resolve(val.v).t # "str", val.v)>>)
      [] OTHER -> TextN(val.tag, val.items[1])

----------------------------------------------------------------------------
(* File trees *)

Restrict(f, S) == [p \in S |-> f[p]]

Overlay(f, g) == [p \in DOMAIN f \cup DOMAIN g |-> IF p \in DOMAIN g THEN g[p] ELSE f[p]]

One(p, c) == [q \in {p} |-> c]

N_README == <<"R", "E", "A", "D", "M", "E", ".", "m", "d">>

\* README_CONTENT (the same text in const.py and in __init__.py)
ReadmeContent == File("", Scal("", FALSE, <<"W", "A", "R", "N", "I", "N", "G">>))

\* AUTO_GENERATED_WARNING of const.py (two comment lines)
BannerT == "transformer"

\* AUTO_GENERATED_WARNING of __init__.py (one comment line)
BannerI == "init"

\* an exception logged with LOGGER.exception, a warning logged with LOGGER.warning
Logged(level, what, about) == [level |-> level, what |-> what, about |-> about]

----------------------------------------------------------------------------
(* Directory traversal order *)

RECURSIVE PermsOf(_)
PermsOf(S) ==
    IF S = {} THEN {<<>>}
    ELSE UNION {{<<x>> \o o : o \in PermsOf(S \ {x})} : x \in S}

\* the orders in which a top-down traversal (os.walk, the "**" of Path.glob)
\* can yield the files S below dir: the files of a directory in the order
\* the file system lists them, then its subdirectories one by one
RECURSIVE WalkOrders(_, _)
RECURSIVE SubOrders(_, _)

SubOrders(S, ds) ==
    IF ds = <<>> THEN {<<>>}
    ELSE {a \o b : a \in WalkOrders(S, Head(ds)), b \in SubOrders(S, Tail(ds))}

WalkOrders(S, dir) ==
    LET n == Len(dir)
        below == {p \in S : Len(p) > n /\ SubSeq(p, 1, n) = dir}
        direct == {p \in below : Len(p) = n + 1}
        subdirs == {SubSeq(p, 1, n + 1) : p \in below \ direct}
    IN {a \o b : a \in PermsOf(direct),
                 b \in UNION {SubOrders(below \ direct, ds) : ds \in PermsOf(subdirs)}}

----------------------------------------------------------------------------
(* transformer.py: process_yaml_files *)

\* shutil.copytree(input, output, ignore=ignore_patterns("*.yaml", "*.yml")): what is kept
NotIgnored(p) == \A i \in 1..Len(p) : ~Ignored(p[i])

\* input_path.glob("**/*.y[a]ml"), then is_file() and not name.startswith(".")
GlobbedT(fs) == {p \in DOMAIN fs : FnMatch(PatGlob, Last(p)) /\ ~Hidden(Last(p))}

\* transformer.py _create_readme: the tree after it, and what it logs
CreateReadme(fs, dirs) ==
    IF <<N_README>> \in dirs
    THEN [fs |-> fs, log |-> {Logged("exception", "OSError", <<N_README>>)}]
    ELSE [fs |-> Overlay(fs, One(<<N_README>>, ReadmeContent)), log |-> {}]

\* the body of the loop for the file p: load, then open the output file and dump
StepT(p, fs, wd, st) ==
    LET l == LoadT(p, fs, wd)
        seen == [st EXCEPT !.parsed = @ \cup {p}, !.missing = @ \cup l.miss]
    IN IF l.err # "" THEN [seen EXCEPT !.result = l.err]
       ELSE IF Front(p) # <<>> /\ Front(p) \notin st.dirs
            THEN [seen EXCEPT !.result = "FileNotFoundError"]
       ELSE [seen EXCEPT !.fs = Overlay(@, One(p, File(BannerT, DumpT(l.val)))),
                         !.bannered = @ \cup {p}]

\* the loop over the files in the given order, up to the first exception
RECURSIVE LoopT(_, _, _, _)
LoopT(order, fs, wd, st) ==
    IF order = <<>> \/ st.result # "ok" THEN st
    ELSE LoopT(Tail(order), fs, wd, StepT(Head(order), fs, wd, st))

\* every way a run over an existing input tree can end
OutcomesT(fs, wd) ==
    LET dirs == {d \in DirsOf(DOMAIN fs) : NotIgnored(d)}
        copied == Restrict(fs, {p \in DOMAIN fs : NotIgnored(p)})
        rm == CreateReadme(copied, dirs)
        start == [fs |-> rm.fs, dirs |-> dirs, result |-> "ok", parsed |-> {},
                  bannered |-> {}, missing |-> {}, log |-> rm.log]
    IN {LoopT(o, fs, wd, start) : o \in WalkOrders(GlobbedT(fs), <<>>)}

\* a run that skips the rmtree and keeps what the directory held
WipedKeepsFiles(fs) == fs

\* shutil.rmtree(output_path) when it exists, then mkdir: an empty directory
Wiped(fs) == Restrict(fs, {})

ProcessYamlFiles ==
    /\ runs < MaxRuns
    /\ runs' = runs + 1
    /\ entry' = "transformer"
    /\ preExists' = outExists
    /\ preFS' = outFS
    /\ outExists' = TRUE
    /\ UNCHANGED <<inExists, inFS, cwd>>
    /\ IF ~inExists
       THEN /\ outFS' = Wiped(outFS)
            /\ outDirs' = {}
            /\ result' = "FileNotFoundError"
            /\ parsed' = {}
            /\ bannered' = {}
            /\ missing' = {}
            /\ log' = {}
       ELSE \E o \in OutcomesT(inFS, cwd) :
            /\ outFS' = Overlay(Wiped(outFS), o.fs)
            /\ outDirs' = o.dirs
            /\ result' = o.result
            /\ parsed' = o.parsed
            /\ bannered' = o.bannered
            /\ missing' = o.missing
            /\ log' = o.log

----------------------------------------------------------------------------
(* __init__.py: construction with CustomLoader (a yaml.SafeLoader) *)

\* the placeholders of a text, in the order re.sub meets them
RECURSIVE PlaceholderSeq(_)
PlaceholderSeq(s) ==
    IF s = <<>> THEN <<>>
    ELSE LET n == MatchLen(s)
         IN IF n = 0 THEN PlaceholderSeq(Tail(s))
            ELSE <<Group1(s, n)>> \o PlaceholderSeq(SubSeq(s, n + 1, Len(s)))

RECURSIVE NodePlaceholderSeq(_)
RECURSIVE ItemsPlaceholderSeq(_, _)

ItemsPlaceholderSeq(node, i) ==
    IF i > Len(node.items) THEN <<>>
    ELSE (IF i <= Len(node.keys) THEN PlaceholderSeq(node.keys[i]) ELSE <<>>)
           \o NodePlaceholderSeq(node.items[i]) \o ItemsPlaceholderSeq(node, i + 1)

NodePlaceholderSeq(node) == PlaceholderSeq(node.text) \o ItemsPlaceholderSeq(node, 1)

\* a in b, for two str
IsSubstring(a, b) == \E i \in 0..(Len(b) - Len(a)) : SubSeq(b, i + 1, i + Len(a)) = a

\* replace_var: var_name in value["vars"], for each type of vars;
\* "raise" where the test or the subscript that follows it raises TypeError
VarLookupI(name, vs) ==
    CASE vs.t = "dict" -> IF HasKey(vs, name) THEN "found" ELSE "absent"
      [] vs.t = "str" -> IF IsSubstring(name, vs.v) THEN "raise" ELSE "absent"
      [] vs.t = "list" -> IF \E i \in 1..Len(vs.items) : vs.items[i] = VStr(name)
                          THEN "raise" ELSE "absent"
      [] OTHER -> "raise"

\* the names re.sub replaces by "" (each with a warning) before it ends or raises
RECURSIVE WarnedI(_, _)
WarnedI(names, vs) ==
    IF names = <<>> \/ VarLookupI(Head(names), vs) = "raise" THEN {}
    ELSE (IF VarLookupI(Head(names), vs) = "absent" THEN {Head(names)} ELSE {})
           \cup WarnedI(Tail(names), vs)

OkS(val) == [err |-> "", val |-> val, miss |-> {}, log |-> {}]

ErrS(e) == [err |-> e, val |-> VNull, miss |-> {}, log |-> {}]

RECURSIVE ConS(_, _, _)
RECURSIVE ConSList(_, _, _)

ConSList(nodes, base, fs) ==
    IF nodes = <<>> THEN [err |-> "", vals |-> <<>>, miss |-> {}, log |-> {}]
    ELSE LET h == ConS(Head(nodes), base, fs)
         IN IF h.err # "" THEN [err |-> h.err, vals |-> <<>>, miss |-> h.miss, log |-> h.log]
            ELSE LET r == ConSList(Tail(nodes), base, fs)
                 IN [err |-> r.err, vals |-> <<h.val>> \o r.vals,
                     miss |-> h.miss \cup r.miss, log |-> h.log \cup r.log]

\* include_constructor of _process_yaml_files, for a mapping node whose
\* children are constructed
IncludeConstructorI(value, base, fs) ==
    LET file == DictGet(value, K_file, VNull)
        vs == DictGet(value, K_vars, VNull)
        rd == ReadFile(InTree(base), file.v, fs)
        doc == rd.content.doc
        names == IF rd.err # "" THEN <<>> ELSE NodePlaceholderSeq(doc)
        warned == {[file |-> file.v, name |-> n] : n \in WarnedI(names, vs)}
        opened == IF rd.err # "" THEN {Logged("exception", rd.err, file.v)} ELSE {}
        warnings == {Logged("warning", "variable not found", w) : w \in warned}
        raises == \E i \in 1..Len(names) : VarLookupI(names[i], vs) = "raise"
        processed_content ==
            IF rd.err # "" THEN VStr(<<>>)
            ELSE VText(rd.content.banner,
                       SubNode(doc, IF vs.t = "dict" THEN vs ELSE VDict(<<>>, <<>>), "I"))
    IN IF ~(HasKey(value, K_file) /\ HasKey(value, K_vars))
       THEN [OkS(value) EXCEPT !.log = {Logged("warning", "invalid format", <<>>)}]
       ELSE IF file.t # "str" THEN ErrS("TypeError")
       ELSE IF raises
            THEN [err |-> "TypeError", val |-> VNull, miss |-> warned,
                  log |-> opened \cup warnings]
       ELSE [err |-> "", val |-> processed_content, miss |-> warned,
             log |-> opened \cup warnings]

\* construct_object of CustomLoader
ConS(node, base, fs) ==
    IF node.tag = IncludeTag /\ node.kind # "map" THEN ErrS("YAMLError")
    ELSE IF node.tag \notin {"", IncludeTag} THEN ErrS("YAMLError")
    ELSE IF node.kind = "scalar"
         THEN OkS(IF node.q THEN VStr(node.text) ELSE Resolve(node.text))
    ELSE IF node.kind = "text" THEN OkS(VText(node.tag, node.items[1]))
    ELSE LET c == ConSList(node.items, base, fs)
             got == [err |-> "", val |-> VNull, miss |-> c.miss, log |-> c.log]
         IN IF c.err # "" THEN [got EXCEPT !.err = c.err]
            ELSE IF node.tag = IncludeTag
                 THEN LET r == IncludeConstructorI(VDict(node.keys, c.vals), base, fs)
                      IN [r EXCEPT !.miss = r.miss \cup c.miss, !.log = r.log \cup c.log]
            ELSE IF node.kind = "seq" THEN [got EXCEPT !.val = VList(c.vals)]
            ELSE [got EXCEPT !.val = VDict(node.keys, c.vals)]

\* yaml.load(content, Loader=LoaderCls) with base_dir = file_path.parent
LoadS(p, fs) ==
    IF HasBad(fs[p].doc) THEN ErrS("YAMLError")
    ELSE ConS(fs[p].doc, Front(p), fs)

----------------------------------------------------------------------------
(* __init__.py: serialization with yaml.safe_dump (sort_keys defaults to True) *)

\* the characters of the modelled texts, by code point
CodeOrder ==
    <<" ", "!", "$", ".", "/", "0", "1", "2", "3", "4", "5", "6", "7", "8", "9",
      "<", ">", "A", "D", "E", "F", "H", "I", "M", "N", "R", "T", "W", "_",
      "a", "b", "c", "d", "e", "f", "g", "h", "i", "j", "k", "l", "m",
      "n", "o", "p", "q", "r", "s", "t", "u", "v", "w", "x", "y", "z",
      "{", "}", "~">>

Ord(c) == CHOOSE i \in 1..Len(CodeOrder) : CodeOrder[i] = c

\* a < b for two str
RECURSIVE StrLess(_, _)
StrLess(a, b) ==
    IF b = <<>> THEN FALSE
    ELSE IF a = <<>> THEN TRUE
    ELSE IF Head(a) = Head(b) THEN StrLess(Tail(a), Tail(b))
    ELSE Ord(Head(a)) < Ord(Head(b))

\* the positions of the keys of a mapping in sorted order
SortedOrder(keys) ==
    CHOOSE o \in [1..Len(keys) -> 1..Len(keys)] :
        /\ \A i, j \in 1..Len(keys) : i # j => o[i] # o[j]
        /\ \A i, j \in 1..Len(keys) :
             i < j => (StrLess(keys[o[i]], keys[o[j]])
                        \/ (keys[o[i]] = keys[o[j]] /\ o[i] < o[j]))

RECURSIVE DumpS(_)
DumpS(val) ==
    CASE val.t = "str" -> Scal("", Resolve(val.v).t # "str", val.v)
      [] val.t = "int" -> Scal("", FALSE, val.v)
      [] val.t = "bool" -> Scal("", FALSE, IF val.v = <<"1">> THEN <<"t", "r", "u", "e">>
                                           ELSE <<"f", "a", "l", "s", "e">>)
      [] val.t = "null" -> Scal("", FALSE, <<"n", "u", "l", "l">>)
      [] val.t = "list" -> SeqN("", [i \in 1..Len(val.items) |-> DumpS(val.items[i])])
      [] val.t = "dict" ->
           LET o == SortedOrder(val.keys)
           IN MapN("", [i \in 1..Len(val.keys) |-> val.keys[o[i]]],
                   [i \in 1..Len(val.keys) |-> DumpS(val.items[o[i]])])
      [] OTHER -> TextN(val.tag, val.items[1])

----------------------------------------------------------------------------
(* __init__.py: _process_yaml *)

\* __init__.py _create_readme
CreateReadmeI(fs, dirs) ==
    IF <<N_README>> \in dirs
    THEN [fs |-> fs, log |-> {Logged("exception", "OSError", <<N_README>>)}]
    ELSE [fs |-> Overlay(fs, One(<<N_README>>, ReadmeContent)), log |-> {}]

\* the files the os.walk loop processes: hidden directories are pruned,
\* hidden files and files without a document suffix are skipped
WalkedI(fs) ==
    {p \in DOMAIN fs : /\ \A i \in 1..Len(p) : ~Hidden(p[i])
                       /\ IsDocName(Last(p))}

\* except (yaml.YAMLError, FileNotFoundError, PermissionError, OSError) of the loop
CaughtI == {"YAMLError", "FileNotFoundError", "PermissionError", "IsADirectoryError", "OSError"}

\* the body of the os.walk loop for the file p
StepI(p, st) ==
    LET l == LoadS(p, st.fs)
        seen == [st EXCEPT !.parsed = @ \cup {p}, !.missing = @ \cup l.miss,
                           !.log = @ \cup l.log]
    IN IF l.err = ""
       THEN [seen EXCEPT !.fs = Overlay(@, One(p, File(BannerI, DumpS(l.val)))),
                         !.bannered = @ \cup {p}]
       ELSE IF l.err \in CaughtI
            THEN [seen EXCEPT !.log = @ \cup {Logged("exception", l.err, p)}]
       ELSE [seen EXCEPT !.result = l.err]

\* _process_yaml_files over the files in the given order
RECURSIVE ProcessYamlFilesI(_, _)
ProcessYamlFilesI(order, st) ==
    IF order = <<>> \/ st.result # "ok" THEN st
    ELSE ProcessYamlFilesI(Tail(order), StepI(Head(order), st))

\* shutil.rmtree(output_dir) when it exists (_prepare_output_directory)
RmtreeI(fs) == Restrict(fs, {})

\* every way _process_yaml over an existing input tree can end
OutcomesI(fs) ==
    LET dirs == DirsOf(DOMAIN fs)
        rm == CreateReadmeI(fs, dirs)
        start == [fs |-> rm.fs, dirs |-> dirs, result |-> "ok", parsed |-> {},
                  bannered |-> {}, missing |-> {}, log |-> rm.log]
    IN {ProcessYamlFilesI(o, start) : o \in WalkOrders(WalkedI(rm.fs), <<>>)}

ProcessYaml ==
    /\ runs < MaxRuns
    /\ runs' = runs + 1
    /\ entry' = "init"
    /\ preExists' = outExists
    /\ preFS' = outFS
    /\ UNCHANGED <<inExists, inFS, cwd>>
    /\ IF ~inExists
       THEN /\ outExists' = FALSE
            /\ outFS' = RmtreeI(outFS)
            /\ outDirs' = {}
            /\ result' = "FileNotFoundError"
            /\ parsed' = {}
            /\ bannered' = {}
            /\ missing' = {}
            /\ log' = {}
       ELSE \E o \in OutcomesI(inFS) :
            /\ outExists' = TRUE
            /\ outFS' = Overlay(RmtreeI(outFS), o.fs)
            /\ outDirs' = o.dirs
            /\ result' = o.result
            /\ parsed' = o.parsed
            /\ bannered' = o.bannered
            /\ missing' = o.missing
            /\ log' = o.log

----------------------------------------------------------------------------
(* The input trees explored *)

N_m == <<"m", ".", "y", "a", "m", "l">>

N_s == <<"s", ".", "y", "a", "m", "l">>

N_b == <<"b", ".", "y", "a", "m", "l">>

N_c == <<"c", ".", "y", "a", "m", "l">>

N_q == <<"q", ".", "y", "a", "m", "l">>

N_a == <<"a", ".", "y", "m", "l">>

N_d == <<"d">>

N_h == <<".", "h">>

N_e == <<".", "e", ".", "y", "a", "m", "l">>

N_y == <<"y", ".", "y", "a", "m", "l">>

N_t == <<"t", ".", "t", "x", "t">>

N_stale == <<"s", "t", "a", "l", "e", ".", "t", "x", "t">>

CustomTag == "!custom"

OtherTag == "!secret"

Plain(s) == Scal("", FALSE, s)

Quoted(s) == Scal("", TRUE, s)

Under(key, node) == MapN("", <<key>>, <<node>>)

\* !include {file: f, vars: v}
Incl(f, v) == MapN(IncludeTag, <<K_file, K_vars>>, <<f, v>>)

\* !include {file: f}
InclFile(f) == MapN(IncludeTag, <<K_file>>, <<f>>)

T_hi == <<"H", "i", " ", "$", "{", "n", "}", "!">>

T_world == <<"W", "o", "r", "l", "d">>

T_u == <<"$", "{", "u", "}">>

T_n == <<"$", "{", "n", "}">>

\* the texts of s.yaml
Snippets ==
    { Under(<<"t">>, Quoted(T_hi)),
      MapN("", <<<<"t">>, <<"k">>>>, <<Quoted(T_hi), Plain(T_u)>>),
      Under(<<"t">>, Scal(CustomTag, FALSE, T_n)),
      Under(<<"t">>, Plain(<<"x">>)) }

\* the vars of a mapping-form include
VarsNodes ==
    { MapN("", <<<<"n">>>>, <<Plain(T_world)>>),
      MapN("", <<<<"n">>>>, <<Plain(<<"5">>)>>),
      MapN("", <<<<"n">>>>, <<Plain(<<"t", "r", "u", "e">>)>>),
      MapN("", <<<<"u">>, <<"n">>>>, <<Plain(<<"7">>), Quoted(T_world)>>),
      MapN("", <<>>, <<>>) }

\* documents that include s.yaml: the mapping form with each vars, the
\* mapping form without vars, the scalar form, and three with a vars that is
\* no mapping (a str, a list, null)
SnippetDocs ==
    {Under(<<"g">>, Incl(Plain(N_s), v)) : v \in VarsNodes}
      \cup { Under(<<"g">>, InclFile(Plain(N_s))),
             Under(<<"g">>, Scal(IncludeTag, FALSE, N_s)),
             Under(<<"g">>, Incl(Plain(N_s), Plain(<<"z", "n">>))),
             Under(<<"g">>, Incl(Plain(N_s), SeqN("", <<Plain(<<"n">>)>>))),
             Under(<<"g">>, Incl(Plain(N_s), Plain(<<>>))) }

\* documents that include d/b.yaml, which includes c.yaml
NestedDocs ==
    { Under(<<"g">>, InclFile(Plain(N_d \o <<"/">> \o N_b))),
      Under(<<"g">>, Incl(Plain(N_d \o <<"/">> \o N_b), MapN("", <<>>, <<>>))) }

\* documents with a malformed include (no file, a file that is no str), an
\* include of a missing file, of a directory, of the document itself, and a
\* document that does not parse
BrokenDocs ==
    { Under(<<"g">>, MapN(IncludeTag, <<K_vars>>, <<MapN("", <<>>, <<>>)>>)),
      Under(<<"g">>, Incl(Plain(<<"5">>), MapN("", <<>>, <<>>))),
      Under(<<"g">>, Incl(Plain(N_q), MapN("", <<>>, <<>>))),
      Under(<<"g">>, Incl(Plain(N_d), MapN("", <<>>, <<>>))),
      Under(<<"g">>, Incl(Plain(N_m), MapN("", <<>>, <<>>))),
      BadN }

\* an unknown directive with each shape of payload
Payloads ==
    { Scal(CustomTag, FALSE, <<"5">>),
      Scal(OtherTag, TRUE, <<"p", "w">>),
      SeqN(CustomTag, <<Plain(<<"1">>), Plain(<<"x">>)>>),
      SeqN(CustomTag, <<Scal(OtherTag, FALSE, <<"v">>)>>),
      MapN(CustomTag, <<<<"a">>>>, <<Plain(<<"b">>)>>),
      MapN(OtherTag, <<<<"a">>>>, <<SeqN(CustomTag, <<Plain(<<"1">>)>>)>>) }

\* ... at the top level, inside a sequence, inside a mapping
TaggedDocs ==
    Payloads
      \cup {SeqN("", <<Plain(<<"x">>), t>>) : t \in Payloads}
      \cup {Under(<<"k">>, t) : t \in Payloads}

Txt(s) == File("", Plain(s))

\* d/b.yaml includes c.yaml, a file of its own directory; c.yaml may also be
\* a (different) file of the root
NestedFiles ==
    [p \in {<<N_d, N_b>>, <<N_d, N_c>>, <<N_c>>} |->
        IF p = <<N_d, N_b>> THEN File("", Under(<<"x">>, InclFile(Plain(N_c))))
        ELSE IF p = <<N_d, N_c>> THEN File("", Under(<<"z">>, Plain(<<"1">>)))
        ELSE File("", Under(<<"z">>, Plain(<<"2">>)))]

\* what a tree may hold besides its documents: a .yml document, a hidden
\* document, a document in a hidden directory, a document in a directory whose
\* name ends in .yaml, a text file, a README.md
ExtraPaths == {<<N_a>>, <<N_e>>, <<N_h, N_c>>, <<N_y, N_c>>, <<N_t>>, <<N_README>>}

ExtraFiles ==
    [p \in ExtraPaths |->
        IF p = <<N_t>> THEN Txt(<<"t", "x", "t">>)
        ELSE IF p = <<N_README>> THEN Txt(<<"m", "i", "n", "e">>)
        ELSE File("", Under(<<"h">>, Plain(<<"1">>)))]

Tree(main, snippet, more) ==
    Overlay(more, [p \in {<<N_m>>, <<N_s>>} |->
                      IF p = <<N_m>> THEN File("", main) ELSE File("", snippet)])

SnippetHi == Under(<<"t">>, Quoted(T_hi))

World(wd, fs) == [cwd |-> wd, fs |-> fs]

NestedBoth == {<<N_d, N_b>>, <<N_d, N_c>>}

\* the working directories and input trees explored: every document that
\* includes s.yaml with every s.yaml; the nested includes with and without a
\* c.yaml in the root; the broken documents; every unknown directive; and one
\* sound and one unparsable document with every choice of neighbours
Worlds ==
    {World(wd, Tree(main, snippet, Restrict(NestedFiles, NestedBoth))) :
        wd \in {"input", "elsewhere"}, main \in SnippetDocs, snippet \in Snippets}
      \cup {World(wd, Tree(main, SnippetHi, Restrict(NestedFiles, NestedBoth \cup root))) :
              wd \in {"input", "elsewhere"}, main \in NestedDocs, root \in SUBSET {<<N_c>>}}
      \cup {World(wd, Tree(main, SnippetHi, Restrict(NestedFiles, NestedBoth))) :
              wd \in {"input", "elsewhere"}, main \in BrokenDocs}
      \cup {World("elsewhere", Tree(main, SnippetHi, Restrict(NestedFiles, {}))) :
              main \in TaggedDocs}
      \cup {World("elsewhere",
                  Tree(main, SnippetHi, Overlay(Restrict(NestedFiles, {<<N_d, N_c>>}),
                                                Restrict(ExtraFiles, extras)))) :
              main \in {Under(<<"g">>, Incl(Plain(N_s), MapN("", <<>>, <<>>))), BadN},
              extras \in SUBSET ExtraPaths}

\* what the output directory may hold that the input does not account for
\* files that are no documents: a text file in a directory, in a hidden
\* directory and in a directory whose name ends in .yaml, and a README.md
\* below the root
AssetPaths == {<<N_t>>, <<N_d, N_t>>, <<N_h, N_t>>, <<N_y, N_t>>, <<N_d, N_README>>}

AssetFiles ==
    [p \in AssetPaths |->
        IF Last(p) = N_README THEN Txt(<<"m", "i", "n", "e">>)
        ELSE Txt(<<"t", "x", "t">>)]

\* one sound document with every choice of such files beside it
AssetWorlds ==
    {World("elsewhere",
           Tree(Under(<<"g">>, Incl(Plain(N_s), MapN("", <<>>, <<>>))), SnippetHi,
                Restrict(AssetFiles, assets))) :
        assets \in SUBSET AssetPaths}

StalePaths == {<<N_stale>>, <<N_README>>}

StaleContent == Txt(<<"o", "l", "d">>)

----------------------------------------------------------------------------
(* The state machine *)

NoRun ==
    /\ entry = "none"
    /\ result = "none"
    /\ preExists = FALSE
    /\ preFS = Restrict(inFS, {})
    /\ parsed = {}
    /\ bannered = {}
    /\ missing = {}
    /\ log = {}

Init ==
    /\ runs = 0
    /\ outExists = FALSE
    /\ outFS = Restrict(ExtraFiles, {})
    /\ outDirs = {}
    /\ \/ /\ inExists = FALSE
          /\ inFS = Restrict(ExtraFiles, {})
          /\ cwd = "elsewhere"
       \/ /\ inExists = TRUE
          /\ \E w \in Worlds \cup AssetWorlds : cwd = w.cwd /\ inFS = w.fs
    /\ NoRun

\* somebody leaves a file in the output directory between two runs
PlantStale ==
    /\ runs < MaxRuns
    /\ entry # "none" \/ ~outExists
    /\ \E p \in StalePaths :
         /\ p \notin DOMAIN outFS
         /\ p \notin outDirs
         /\ outFS' = Overlay(outFS, One(p, StaleContent))
         /\ outDirs' = outDirs \cup DirsOf({p})
    /\ outExists' = TRUE
    /\ entry' = "none"
    /\ result' = "none"
    /\ preExists' = FALSE
    /\ preFS' = Restrict(inFS, {})
    /\ parsed' = {}
    /\ bannered' = {}
    /\ missing' = {}
    /\ log' = {}
    /\ UNCHANGED <<inExists, inFS, cwd, runs>>

Next == ProcessYamlFiles \/ ProcessYaml \/ PlantStale

Spec == Init /\ [][Next]_vars

----------------------------------------------------------------------------
(* What the claims are stated with *)

RanT == entry = "transformer"

RanI == entry = "init"

Ran == RanT \/ RanI

M == <<N_m>>

\* no component of the path is hidden
Visible(p) == \A i \in 1..Len(p) : ~Hidden(p[i])

\* the value of a mapping of scalars, as the resolver reads it
ScalarsOf(node) ==
    VDict(node.keys,
          [i \in 1..Len(node.items) |->
              IF node.items[i].q THEN VStr(node.items[i].text)
              ELSE Resolve(node.items[i].text)])

\* a text with every ${name} replaced: by the string form of V[name] when V
\* defines name, by nothing otherwise
RECURSIVE Substituted(_, _)
Substituted(s, V) ==
    IF s = <<>> THEN <<>>
    ELSE IF MatchLen(s) = 0 THEN <<Head(s)>> \o Substituted(Tail(s), V)
    ELSE LET name == Group1(s, MatchLen(s))
             by == IF \E i \in 1..Len(V.keys) : V.keys[i] = name
                   THEN Str(V.items[CHOOSE i \in 1..Len(V.keys) : V.keys[i] = name])
                   ELSE <<>>
         IN by \o Substituted(SubSeq(s, MatchLen(s) + 1, Len(s)), V)

RECURSIVE SubstitutedDoc(_, _)
SubstitutedDoc(node, V) ==
    [node EXCEPT !.text = Substituted(node.text, V),
                 !.keys = [i \in 1..Len(node.keys) |-> Substituted(node.keys[i], V)],
                 !.items = [i \in 1..Len(node.items) |-> SubstitutedDoc(node.items[i], V)]]

\* the document is  key: !include {file: F, vars: V}  with V a mapping of
\* scalars and F a file of the document's directory
IsMappingInclude(doc) ==
    /\ doc.kind = "map" /\ doc.tag = "" /\ Len(doc.items) = 1
    /\ doc.items[1].kind = "map" /\ doc.items[1].tag = IncludeTag
    /\ doc.items[1].keys = <<K_file, K_vars>>
    /\ doc.items[1].items[1].kind = "scalar"
    /\ doc.items[1].items[2].kind = "map"
    /\ SplitPath(doc.items[1].items[1].text, <<>>) \in DOMAIN inFS

\* the document is  key: !include F  with F a file of the document's directory
IsScalarInclude(doc) ==
    /\ doc.kind = "map" /\ doc.tag = "" /\ Len(doc.items) = 1
    /\ doc.items[1].kind = "scalar" /\ doc.items[1].tag = IncludeTag
    /\ SplitPath(doc.items[1].text, <<>>) \in DOMAIN inFS

TargetOf(doc) ==
    inFS[SplitPath((IF doc.items[1].kind = "scalar" THEN doc.items[1]
                    ELSE doc.items[1].items[1]).text, <<>>)].doc

\* a tag occurs somewhere in the node tree
RECURSIVE Mentions(_, _)
Mentions(node, tag) ==
    node.tag = tag \/ \E i \in 1..Len(node.items) : Mentions(node.items[i], tag)

\* two node trees with the same tags at the same positions and equivalent
\* payloads: untagged scalars that read as the same value, tagged scalars
\* with the same text, collections with the same keys and equivalent items
RECURSIVE Equivalent(_, _)
Equivalent(a, b) ==
    /\ a.kind = b.kind
    /\ a.tag = b.tag
    /\ a.keys = b.keys
    /\ Len(a.items) = Len(b.items)
    /\ IF a.kind = "scalar" /\ a.tag = ""
       THEN (IF a.q THEN VStr(a.text) ELSE Resolve(a.text))
              = (IF b.q THEN VStr(b.text) ELSE Resolve(b.text))
       ELSE a.text = b.text
    /\ \A i \in 1..Len(a.items) : Equivalent(a.items[i], b.items[i])

----------------------------------------------------------------------------
(* The claims *)

\* C1 as stated: after a run of either entry point, no file that the output
\* directory held before the run at a path absent from the input directory
\* exists any more.
C1_StaleGone_AsStated ==
    (Ran /\ preExists) =>
        \A p \in DOMAIN preFS : p \notin DOMAIN inFS => p \notin DOMAIN outFS

\* C1, amended: after a run of either entry point (the first or a later one),
\* no file that the output directory held before the run at a path absent
\* from the input directory exists any more, except README.md in the root,
\* which the run writes anew with the marker text.
C1_StaleGone ==
    (Ran /\ preExists) =>
        \A p \in DOMAIN preFS :
            p \notin DOMAIN inFS =>
                IF p = <<N_README>>
                THEN p \in DOMAIN outFS => outFS[p] = ReadmeContent
                ELSE p \notin DOMAIN outFS

\* C1 witness: a second run has removed a stale.txt planted after the first
C1_Witness ==
    /\ Ran /\ runs >= 2 /\ preExists /\ inExists
    /\ <<N_stale>> \in DOMAIN preFS
    /\ <<N_stale>> \notin DOMAIN inFS
    /\ <<N_stale>> \notin DOMAIN outFS
    /\ <<N_README>> \in DOMAIN preFS

\* C2: when the input directory does not exist, a run of either entry point
\* fails and leaves an existing output directory exactly as it was.
C2_MissingInputNoMutation ==
    (Ran /\ ~inExists /\ preExists) =>
        /\ result # "ok"
        /\ outExists
        /\ outFS = preFS

\* C3: after a completed run of process_yaml_files, every visible input file
\* named *.yaml or *.yml has an output file at the same relative path, made of
\* the banner and the serialized transformed document.
C3_OutputMirrorsDocuments ==
    (RanT /\ result = "ok") =>
        \A p \in DOMAIN inFS :
            (Visible(p) /\ IsDocName(Last(p))) =>
                /\ p \in DOMAIN outFS
                /\ outFS[p].banner = BannerT
                /\ outFS[p].doc = DumpT(LoadT(p, inFS, cwd).val)

\* C4: when process_yaml_files has transformed a document
\* key: !include {file: F, vars: V}, the output holds at key the value of the
\* text of F, parsed as a full document after every ${name} that V defines was
\* replaced by the string form of V[name] (and every other ${name} by
\* nothing); for the text  t: "Hi ${n}!"  and V = {n: World} that is
\* t: Hi World!
C4_MappingInclude ==
    (RanT /\ M \in bannered /\ IsMappingInclude(inFS[M].doc)) =>
        LET doc == inFS[M].doc
            V == ScalarsOf(doc.items[1].items[2])
            text == SubstitutedDoc(TargetOf(doc), V)
            value == ConT(text, CwdDir(cwd), inFS, cwd, 1).val
        IN /\ outFS[M].doc = MapN("", doc.keys, <<DumpT(value)>>)
           /\ (TargetOf(doc) = SnippetHi /\ HasKey(V, <<"n">>)
                 /\ DictGet(V, <<"n">>, VNull) = VStr(T_world))
                => outFS[M].doc.items[1]
                     = Under(<<"t">>, Plain(<<"H", "i", " ", "W", "o", "r", "l", "d", "!">>))

\* C4 witness: the example of the claim has been transformed
C4_Witness ==
    /\ RanT /\ M \in bannered /\ IsMappingInclude(inFS[M].doc)
    /\ TargetOf(inFS[M].doc) = SnippetHi
    /\ ScalarsOf(inFS[M].doc.items[1].items[2]) = VDict(<<<<"n">>>>, <<VStr(T_world)>>)
    /\ outFS[M].doc.items[1].items[1].text = <<"H", "i", " ", "W", "o", "r", "l", "d", "!">>

\* C5: when process_yaml_files has parsed a document  key: !include F  (scalar
\* form), the run transforms it and the output holds at key the parsed
\* content of F with no variable replaced by a value, and no node object.
C5_ScalarInclude ==
    (RanT /\ M \in parsed /\ IsScalarInclude(inFS[M].doc)) =>
        /\ M \in bannered
        /\ ~Mentions(outFS[M].doc, PyObjectTag)
        /\ ~Mentions(outFS[M].doc, IncludeTag)
        /\ outFS[M].doc
             = MapN("", inFS[M].doc.keys,
                    <<DumpT(ConT(SubstitutedDoc(TargetOf(inFS[M].doc), VDict(<<>>, <<>>)),
                                 CwdDir(cwd), inFS, cwd, 1).val)>>)

\* the input holds  m.yaml: g: !include {file: d/b.yaml ...},
\* d/b.yaml: x: !include {file: c.yaml}  and  d/c.yaml: z: 1
NestedCase ==
    /\ inExists
    /\ M \in DOMAIN inFS /\ inFS[M].doc \in NestedDocs
    /\ {<<N_d, N_b>>, <<N_d, N_c>>} \subseteq DOMAIN inFS
    /\ inFS[<<N_d, N_b>>] = NestedFiles[<<N_d, N_b>>]
    /\ inFS[<<N_d, N_c>>] = NestedFiles[<<N_d, N_c>>]

\* C6: when A includes d/b.yaml and d/b.yaml includes c.yaml, each path
\* relative to the directory of the document that declares it, the include in
\* A resolves into one value tree that holds the content of d/c.yaml and no
\* include directive.
C6_NestedIncludes ==
    (RanT /\ NestedCase /\ M \in parsed) =>
        /\ M \in bannered
        /\ outFS[M].doc
             = Under(<<"g">>, Under(<<"x">>, Under(<<"z">>, Plain(<<"1">>))))

\* C7: every placeholder that the vars of its include does not define is
\* replaced by the empty string, and a warning is logged for it, by either
\* entry point.
C7_MissingVariableWarned ==
    Ran => \A u \in missing : Logged("warning", "variable not found", u) \in log

\* the documents of the input that hold no include directive and do parse
Verbatim == {p \in DOMAIN inFS : ~Mentions(inFS[p].doc, IncludeTag) /\ ~HasBad(inFS[p].doc)}

\* C8: process_yaml_files parses every document that holds unknown
\* directives, and writes it with the same tags at the same positions and
\* equivalent payloads: at the top level, inside a sequence, inside a mapping,
\* and inside an included document.
C8_UnknownTagsRoundTrip ==
    RanT =>
        /\ \A p \in parsed \cap Verbatim :
              p \in bannered => Equivalent(inFS[p].doc, outFS[p].doc)
        /\ \A p \in parsed \cap Verbatim :
              (Front(p) = <<>> \/ Front(p) \in outDirs) => p \in bannered
        /\ (M \in bannered /\ IsMappingInclude(inFS[M].doc)
              /\ ~Mentions(TargetOf(inFS[M].doc), IncludeTag))
             => Equivalent(SubstitutedDoc(TargetOf(inFS[M].doc),
                                          ScalarsOf(inFS[M].doc.items[1].items[2])),
                           outFS[M].doc.items[1])

\* C8 witness: unknown directives nested in a mapping and in a sequence, and
\* one inside an included document, have been written
C8_Witness ==
    /\ RanT /\ M \in bannered
    /\ \/ /\ inFS[M].doc = Under(<<"k">>, MapN(OtherTag, <<<<"a">>>>,
                                              <<SeqN(CustomTag, <<Plain(<<"1">>)>>)>>))
          /\ outFS[M].doc.items[1].tag = OtherTag
          /\ outFS[M].doc.items[1].items[1].tag = CustomTag
       \/ /\ IsMappingInclude(inFS[M].doc)
          /\ TargetOf(inFS[M].doc) = Under(<<"t">>, Scal(CustomTag, FALSE, T_n))
          /\ outFS[M].doc.items[1].items[1] = Scal(CustomTag, FALSE, T_world)

\* process_service: except (FileNotFoundError, PermissionError, yaml.YAMLError)
CaughtByService == {"FileNotFoundError", "PermissionError", "YAMLError"}

\* C9: a run of either entry point ends without an exception or with one of
\* the classes process_service catches.
C9_ErrorContract == Ran => result \in {"ok"} \cup CaughtByService

\* C10: no file with a hidden name, and no file below a hidden directory, is
\* parsed as a document or written with a banner by either entry point.
C10_HiddenExcluded == Ran => \A p \in parsed \cup bannered : Visible(p)

\* C11: after a completed run of either entry point, every file of the input
\* tree whose name ends neither in .yaml nor in .yml is in the output tree at
\* the same relative path, with the content of the input file and no banner.
C11_NonDocumentPassthrough ==
    (Ran /\ inExists /\ result = "ok") =>
        \A p \in DOMAIN inFS :
            ~IsDocName(Last(p)) => (p \in DOMAIN outFS /\ outFS[p] = inFS[p])

====
